---------------------------- MODULE Spec2Model ----------------------------
(***************************************************************************)
(* ServiceInfo of zeroconf/_services/info.py: the record state of one      *)
(* DNS-SD service, the reconciliation of incoming DNS records into it, the *)
(* cache loader and the resolution driver (async_request).                 *)
(***************************************************************************)
EXTENDS Integers, Sequences, FiniteSets, TLC

(***************************************************************************)
(* Bounds of the model.                                                    *)
(***************************************************************************)
MaxAddrs == 2
MaxBatch == 1
MaxItems == 2

(***************************************************************************)
(* Values.  None stands for Python's None where the field is a string.     *)
(* A packed address is <<number of bytes, id>>: 4 bytes parse as IPv4,     *)
(* 16 bytes as IPv6, anything else makes ip_address raise ValueError.      *)
(***************************************************************************)
None == "None"
NonePort == -1

V4Packed == {<<4, 1>>, <<4, 2>>}
V6Packed == {<<16, 1>>, <<16, 2>>}
BadPacked == {<<5, 1>>}
Packed == V4Packed \cup V6Packed \cup BadPacked

InstanceName == "Printer"
Lower(n) ==
    CASE n = "Printer" -> "printer"
      [] n = "PRINTER" -> "printer"
      [] n = "HostA" -> "hosta"
      [] OTHER -> n

\* TXT payloads: b'', b'\x03a=1', b'\x01b\x03a=2'
NoneText == <<-1>>
Text0 == <<>>
Text1 == <<3, 97, 61, 49>>
Text2 == <<1, 98, 3, 97, 61, 50>>
Texts == {Text0, Text1, Text2}

Nows == {1000, 2000}

(***************************************************************************)
(* Sequence helpers (Python list operations).                              *)
(***************************************************************************)
Range(q) == {q[i] : i \in 1..Len(q)}

Reverse(q) == [i \in 1..Len(q) |-> q[Len(q) + 1 - i]]

\* list.remove(x): drops the first occurrence of x
ListRemove(q, x) ==
    LET i == CHOOSE k \in 1..Len(q) : q[k] = x /\ \A j \in 1..(k - 1) : q[j] # x
    IN  SubSeq(q, 1, i - 1) \o SubSeq(q, i + 1, Len(q))

SeqsUpTo(S, n) == UNION {[1..k -> S] : k \in 0..n}

(***************************************************************************)
(* ip_address on packed bytes; version 0 stands for the ValueError.        *)
(***************************************************************************)
ip_address(packed) ==
    IF packed[1] = 4 THEN [version |-> 4, packed |-> packed]
    ELSE IF packed[1] = 16 THEN [version |-> 6, packed |-> packed]
    ELSE [version |-> 0, packed |-> packed]

RaisesValueError(packed) == ip_address(packed).version = 0

(***************************************************************************)
(* DNS records (collaborator value types).                                 *)
(***************************************************************************)
DNSAddress(name, address, ttl) ==
    [cls |-> "DNSAddress", name |-> name,
     type |-> IF address[1] = 16 THEN "AAAA" ELSE "A",
     address |-> address, created |-> 0, ttl |-> ttl]

DNSText(name, text, ttl) ==
    [cls |-> "DNSText", name |-> name, type |-> "TXT", text |-> text,
     created |-> 0, ttl |-> ttl]

DNSService(name, server, port, weight, priority, ttl) ==
    [cls |-> "DNSService", name |-> name, type |-> "SRV", server |-> server,
     port |-> port, weight |-> weight, priority |-> priority,
     created |-> 0, ttl |-> ttl]

DNSPointer(name, alias, ttl) ==
    [cls |-> "DNSPointer", name |-> name, type |-> "PTR", alias |-> alias,
     created |-> 0, ttl |-> ttl]

RecordKey(record) == Lower(record.name)

\* record.created + ttl * 1000 <= now
is_expired(record, now) == record.created + record.ttl * 1000 <= now



(***************************************************************************)
(* TXT codec, decoding side.  A decoded attribute is <<key, hasValue,      *)
(* value>>; hasValue = FALSE stands for None.  A dict is a set of them     *)
(* with distinct keys.                                                     *)
(***************************************************************************)
EqualsSign == 61

Min(a, b) == IF a <= b THEN a ELSE b

\* the while loop: text[index] is the length, text[index+1 : index+1+length] the pair
RECURSIVE UnpackPairs(_, _)
UnpackPairs(text, index) ==
    IF index > Len(text) THEN <<>>
    ELSE LET length == text[index]
         IN  <<SubSeq(text, index + 1, Min(index + length, Len(text)))>>
                \o UnpackPairs(text, index + 1 + length)

\* pair.partition(b'='), then value or None
Partition(pair) ==
    IF EqualsSign \in Range(pair)
    THEN LET i == CHOOSE k \in 1..Len(pair) :
                    pair[k] = EqualsSign /\ \A j \in 1..(k - 1) : pair[j] # EqualsSign
             value == SubSeq(pair, i + 1, Len(pair))
         IN  <<SubSeq(pair, 1, i - 1), value # <<>>, value>>
    ELSE <<pair, FALSE, <<>>>>

DictSet(d, item) == {e \in d : e[1] # item[1]} \cup {item}

\* the dict comprehension: a later item of the sequence overwrites an earlier one
RECURSIVE DictOf(_, _)
DictOf(items, d) ==
    IF items = <<>> THEN d
    ELSE DictOf(Tail(items), DictSet(d, Partition(Head(items))))

\* unpacking without pairs.reverse(): the last occurrence of a key wins
unpack_text_in_wire_order(text) ==
    IF text = <<>> THEN {}
    ELSE DictOf(UnpackPairs(text, 1), {})

unpack_text_into_properties(text) ==
    IF text = <<>> THEN {}
    ELSE DictOf(Reverse(UnpackPairs(text, 1)), {})

NoProperties == [computed |-> FALSE, dict |-> {}]

(***************************************************************************)
(* ServiceInfo: the fields are those of __slots__.                         *)
(***************************************************************************)
\* _set_text that forgets to clear the properties cache
set_text_keeping_properties(s, text) ==
    IF text = s.text THEN s ELSE [s EXCEPT !.text = text]

\* _set_text
set_text(s, text) ==
    IF text = s.text THEN s
    ELSE [s EXCEPT !.text = text, !.properties = NoProperties]

\* a properties dict handed to the constructor: its items in insertion order,
\* each <<key, value is not None, value>> with bytes for keys and values
PropertyKeys == {<<97>>, <<98>>}
PropertyValues == {<<FALSE, <<>>>>, <<TRUE, <<>>>>, <<TRUE, <<49>>>>, <<TRUE, <<50>>>>}
PropertyItems == {<<k, v[1], v[2]>> : k \in PropertyKeys, v \in PropertyValues}
PropertyDicts ==
    {m \in SeqsUpTo(PropertyItems, MaxItems) :
        \A i, j \in 1..Len(m) : i # j => m[i][1] # m[j][1]}

\* a str is written with its code points negated, which keeps 'a' apart from
\* b'a' as Python does
Str(bytes) == [i \in 1..Len(bytes) |-> 0 - bytes[i]]

\* the dict {'a': '1'}, keys and values str
StrPropertyDicts == {<<(<<Str(<<97>>), TRUE, Str(<<49>>)>>)>>}

\* x.encode('utf-8') when x is a str, x when it is bytes
Utf8(x) == [i \in 1..Len(x) |-> IF x[i] < 0 THEN 0 - x[i] ELSE x[i]]

\* record = key, or key + b'=' + value
PropertyRecord(item) ==
    IF item[2] THEN Utf8(item[1]) \o <<EqualsSign>> \o Utf8(item[3]) ELSE Utf8(item[1])

\* result = b''.join((result, bytes((len(item),)), item)) over list_
RECURSIVE JoinRecords(_)
JoinRecords(list_) ==
    IF list_ = <<>> THEN <<>>
    ELSE <<Len(Head(list_))>> \o Head(list_) \o JoinRecords(Tail(list_))

\* _set_properties: keeps the dict it was given and packs it into text
set_properties(s, properties) ==
    [s EXCEPT !.properties = [computed |-> TRUE, dict |-> Range(properties)],
              !.text = JoinRecords([i \in 1..Len(properties) |->
                                       PropertyRecord(properties[i])])]

\* __init__ with properties given as bytes and addresses already validated
NewServiceInfo(server, properties, addresses) ==
    LET parsed == [i \in 1..Len(addresses) |-> ip_address(addresses[i])]
        s0 == [name |-> InstanceName, key |-> Lower(InstanceName),
               server |-> server,
               server_key |-> IF server = None THEN None ELSE Lower(server),
               port |-> NonePort, weight |-> 0, priority |-> 0,
               text |-> <<>>, properties |-> NoProperties,
               ipv4_addresses |-> SelectSeq(parsed, LAMBDA a : a.version = 4),
               ipv6_addresses |-> SelectSeq(parsed, LAMBDA a : a.version # 4)]
    IN  set_text(s0, properties)

\* __init__ with properties given as a dict
NewServiceInfoFromDict(server, properties, addresses) ==
    set_properties([NewServiceInfo(server, <<>>, addresses)
                       EXCEPT !.properties = NoProperties], properties)

\* the properties getter
get_properties(s) ==
    IF s.properties.computed THEN s
    ELSE [s EXCEPT !.properties =
              [computed |-> TRUE, dict |-> unpack_text_into_properties(s.text)]]

\* _is_complete that takes an empty text for a missing one
is_complete_with_text(s) ==
    s.text # <<>> /\ (s.ipv4_addresses # <<>> \/ s.ipv6_addresses # <<>>)

is_complete(s) ==
    s.text # NoneText /\ (s.ipv4_addresses # <<>> \/ s.ipv6_addresses # <<>>)

(***************************************************************************)
(* The cache collaborator: a sequence of records in insertion order.       *)
(***************************************************************************)
get_all_by_details(zc, key, type) ==
    SelectSeq(zc, LAMBDA r : RecordKey(r) = key /\ r.type = type)

\* <<>> when there is none, else <<the most recently cached match>>
get_by_details(zc, name, type) ==
    LET found == get_all_by_details(zc, Lower(name), type)
    IN  IF found = <<>> THEN <<>> ELSE <<found[Len(found)]>>

get_address_records_from_cache_by_type(s, zc, type) ==
    IF s.server_key = None THEN <<>>
    ELSE get_all_by_details(zc, s.server_key, type)

\* _get_ip_addresses_from_cache_lifo without the final reverse()
get_ip_addresses_from_cache_fifo(s, zc, now, type) ==
    LET kept == SelectSeq(get_address_records_from_cache_by_type(s, zc, type),
                          LAMBDA r : ~is_expired(r, now) /\ ~RaisesValueError(r.address))
    IN  [i \in 1..Len(kept) |-> ip_address(kept[i].address)]

get_ip_addresses_from_cache_lifo(s, zc, now, type) ==
    LET kept == SelectSeq(get_address_records_from_cache_by_type(s, zc, type),
                          LAMBDA r : ~is_expired(r, now) /\ ~RaisesValueError(r.address))
    IN  Reverse([i \in 1..Len(kept) |-> ip_address(kept[i].address)])

set_ipv4_addresses_from_cache(s, zc, now) ==
    [s EXCEPT !.ipv4_addresses = get_ip_addresses_from_cache_lifo(s, zc, now, "A")]

set_ipv6_addresses_from_cache(s, zc, now) ==
    [s EXCEPT !.ipv6_addresses = get_ip_addresses_from_cache_lifo(s, zc, now, "AAAA")]

(***************************************************************************)
(* _process_record_threadsafe: [s |-> the state after, ret |-> returned]   *)
(***************************************************************************)
\* a promotion that inserts at the head without removing the old entry
InsertOrPromoteKeepingOld(addresses, ip_addr) ==
    IF ip_addr \notin Range(addresses)
    THEN [list |-> <<ip_addr>> \o addresses, ret |-> TRUE]
    ELSE IF ip_addr # addresses[1]
    THEN [list |-> <<ip_addr>> \o addresses, ret |-> FALSE]
    ELSE [list |-> addresses, ret |-> FALSE]

\* insert at the head, or move to the head
InsertOrPromote(addresses, ip_addr) ==
    IF ip_addr \notin Range(addresses)
    THEN [list |-> <<ip_addr>> \o addresses, ret |-> TRUE]
    ELSE IF ip_addr # addresses[1]
    THEN [list |-> <<ip_addr>> \o ListRemove(addresses, ip_addr), ret |-> FALSE]
    ELSE [list |-> addresses, ret |-> FALSE]

ProcessAddress(s, zc, record, now) ==
    LET ip_addr == ip_address(record.address)
    IN  IF ip_addr.version = 0 THEN [s |-> s, ret |-> FALSE]
        ELSE IF ip_addr.version = 4
        THEN LET s1 == IF s.ipv4_addresses # <<>>
                       THEN set_ipv4_addresses_from_cache(s, zc, now) ELSE s
                 r == InsertOrPromote(s1.ipv4_addresses, ip_addr)
             IN  [s |-> [s1 EXCEPT !.ipv4_addresses = r.list], ret |-> r.ret]
        ELSE LET s1 == IF s.ipv6_addresses = <<>>
                       THEN set_ipv6_addresses_from_cache(s, zc, now) ELSE s
                 r == InsertOrPromote(s1.ipv6_addresses, ip_addr)
             IN  [s |-> [s1 EXCEPT !.ipv6_addresses = r.list], ret |-> r.ret]

ProcessService(s, zc, record, now) ==
    LET s1 == [s EXCEPT !.name = record.name, !.key = Lower(record.name),
                        !.server = record.server,
                        !.server_key = Lower(record.server),
                        !.port = record.port, !.weight = record.weight,
                        !.priority = record.priority]
    IN  IF s.server_key # s1.server_key
        THEN [s |-> set_ipv6_addresses_from_cache(
                        set_ipv4_addresses_from_cache(s1, zc, now), zc, now),
              ret |-> TRUE]
        ELSE [s |-> s1, ret |-> TRUE]

\* _process_record_threadsafe that checks expiry only for address records
process_record_expiring_addresses(s, zc, record, now) ==
    IF RecordKey(record) = s.server_key /\ record.cls = "DNSAddress"
    THEN IF is_expired(record, now) THEN [s |-> s, ret |-> FALSE]
         ELSE ProcessAddress(s, zc, record, now)
    ELSE IF RecordKey(record) # s.key THEN [s |-> s, ret |-> FALSE]
    ELSE IF record.type = "TXT" /\ record.cls = "DNSText"
    THEN [s |-> set_text(s, record.text), ret |-> TRUE]
    ELSE IF record.type = "SRV" /\ record.cls = "DNSService"
    THEN ProcessService(s, zc, record, now)
    ELSE [s |-> s, ret |-> FALSE]

process_record_threadsafe(s, zc, record, now) ==
    IF is_expired(record, now) THEN [s |-> s, ret |-> FALSE]
    ELSE IF RecordKey(record) = s.server_key /\ record.cls = "DNSAddress"
    THEN ProcessAddress(s, zc, record, now)
    ELSE IF RecordKey(record) # s.key THEN [s |-> s, ret |-> FALSE]
    ELSE IF record.type = "TXT" /\ record.cls = "DNSText"
    THEN [s |-> set_text(s, record.text), ret |-> TRUE]
    ELSE IF record.type = "SRV" /\ record.cls = "DNSService"
    THEN ProcessService(s, zc, record, now)
    ELSE [s |-> s, ret |-> FALSE]

\* the for loop of async_update_records: updated |= ...
RECURSIVE ProcessAll(_, _, _, _, _)
ProcessAll(s, zc, records, now, updated) ==
    IF records = <<>> THEN [s |-> s, ret |-> updated]
    ELSE LET r == process_record_threadsafe(s, zc, Head(records), now)
         IN  ProcessAll(r.s, zc, Tail(records), now, updated \/ r.ret)

\* the cached record is looked up but not applied
ProcessOptionalSkipped(s, zc, found, now) == s

\* if cached_record: self._process_record_threadsafe(zc, cached_record, now)
ProcessOptional(s, zc, found, now) ==
    IF found = <<>> THEN s ELSE process_record_threadsafe(s, zc, found[1], now).s

load_from_cache(s, zc, now) ==
    LET s1 == ProcessOptional(s, zc, get_by_details(zc, s.name, "SRV"), now)
        s2 == ProcessOptional(s1, zc, get_by_details(zc, s1.name, "TXT"), now)
        s3 == IF s.server_key = s2.server_key
              THEN ProcessAll(s2, zc,
                       get_address_records_from_cache_by_type(s2, zc, "A")
                           \o get_address_records_from_cache_by_type(s2, zc, "AAAA"),
                       now, FALSE).s
              ELSE s2
    IN  [s |-> s3, ret |-> is_complete(s3)]


(***************************************************************************)
(* Records the network delivers and records the cache may hold.            *)
(***************************************************************************)
UpdateRecords ==
    {DNSAddress("HostA", a, 2) : a \in {<<4, 1>>, <<4, 2>>, <<16, 1>>, <<5, 1>>}}
        \cup {DNSText("printer", Text1, 2)}
        \cup {DNSService("printer", "HostA", 80, 0, 0, 2),
              DNSService("Printer", "hostb", 81, 1, 2, 2)}

\* The engine caches what it receives: the cache grows along one of these feeds.
CacheFeeds ==
    {<<DNSAddress("hostb", <<4, 1>>, 2), DNSAddress("hostb", <<4, 2>>, 2),
       DNSAddress("hostb", <<16, 1>>, 1), DNSAddress("hostb", <<16, 2>>, 2),
       DNSAddress("hostb", <<5, 1>>, 2)>>,
     <<DNSService("printer", "hostb", 81, 1, 2, 2), DNSAddress("HostA", <<4, 1>>, 2),
       DNSAddress("HostA", <<16, 1>>, 2), DNSAddress("HostA", <<16, 2>>, 2)>>,
     <<DNSAddress("HostA", <<4, 2>>, 2), DNSService("printer", "HostA", 80, 0, 0, 2),
       DNSText("printer", Text1, 2)>>}

\* every kind of record the reconciler can be handed
AllRecords ==
    UpdateRecords
        \cup {DNSAddress(n, a, t) : n \in {"HostA", "hostb"}, a \in Packed, t \in {1, 2, 3}}
        \cup {DNSText(n, x, t) : n \in {"Printer", "other"}, x \in Texts, t \in {1, 2}}
        \cup {DNSService(n, h, 443, 5, 6, t) :
                  n \in {"printer", "other"}, h \in {"HostA", "hosta", "hostb"},
                  t \in {1, 2}}
        \cup {DNSPointer(n, "x", 2) : n \in {"printer", "hosta"}}

\* the records that are also delivered several to a batch
BatchRecords ==
    {DNSAddress("HostA", <<4, 1>>, 2), DNSText("printer", Text1, 2),
     DNSService("printer", "HostA", 80, 0, 0, 2)}

Batches ==
    {<<record>> : record \in UpdateRecords} \cup (SeqsUpTo(BatchRecords, MaxBatch) \ {<<>>})

\* address lists handed to the constructor and to the addresses setter
AddressLists == SeqsUpTo({<<4, 1>>, <<16, 1>>, <<5, 1>>}, MaxAddrs)

\* the future of a task that calls async_wait directly; a driver's future
\* carries the driver's number
CallerFuture == "caller"
Drivers == {"d1", "d2"}

(***************************************************************************)
(* State.                                                                  *)
(***************************************************************************)
VARIABLES
    info,           \* the ServiceInfo
    futures,        \* _new_records_futures: the futures of the pending waits
    cache,          \* zc.cache
    lastCall,       \* the last operation: its case and what it returned
    clock,          \* current_time_millis()
    started,        \* zc.started
    listeners,      \* the engine's list of record update listeners
    listenerCalls,  \* how often async_add_listener / async_remove_listener ran
    queries,        \* the queries handed to zc.async_send, in order
    drv,            \* per driver: the locals of its async_request coroutine
    threads         \* per execution context: the locals of its _process_record_threadsafe

recordVars == <<info, futures, cache, lastCall>>
engineVars == <<clock, started, listeners, listenerCalls, queries>>
vars ==
    <<info, futures, cache, lastCall, clock, started, listeners, listenerCalls, queries, drv,
      threads>>

\* the case a record falls in when applied to state s
Classify(s, record, now) ==
    IF is_expired(record, now) THEN "expired"
    ELSE IF RecordKey(record) = s.server_key /\ record.cls = "DNSAddress"
    THEN IF RaisesValueError(record.address) THEN "address_malformed"
         ELSE IF ip_address(record.address) \in
                    Range(s.ipv4_addresses) \cup Range(s.ipv6_addresses)
         THEN "address_present" ELSE "address_absent"
    ELSE IF RecordKey(record) # s.key THEN "unrelated"
    ELSE IF record.cls = "DNSText"
    THEN IF record.text = s.text THEN "text_same" ELSE "text_new"
    ELSE IF record.cls = "DNSService"
    THEN IF Lower(record.server) = s.server_key THEN "service_same_host"
         ELSE "service_new_host"
    ELSE "other"

Call(op, case, ret, notified) ==
    [op |-> op, case |-> case, ret |-> ret, notified |-> notified]

NoCall == Call("", "", FALSE, FALSE)

\* the clock when the model starts: the earliest of the times records are applied at
StartTime == CHOOSE t \in Nows : \A u \in Nows : t <= u

\* the execution contexts that apply records: the event loop and a caller thread
Threads == {"loop", "caller"}

IdleThread ==
    [pc |-> "idle", ip_addr |-> ip_address(<<5, 1>>), stale |-> FALSE, list |-> <<>>,
     ret |-> FALSE]

IdleDriver ==
    [pc |-> "idle", exit |-> "", timeout |-> 0, question_type |-> None, now |-> 0,
     next_ |-> 0, last |-> 0, delay |-> 0, first_request |-> FALSE, result |-> FALSE,
     wake |-> 0, entry |-> [at |-> 0, complete |-> FALSE], context |-> "task"]

EngineInit ==
    /\ clock = StartTime
    /\ started = FALSE
    /\ listeners = <<>>
    /\ listenerCalls = [added |-> 0, removed |-> 0]
    /\ queries = <<>>
    /\ drv = [d \in Drivers |-> IdleDriver]
    /\ threads = [t \in Threads |-> IdleThread]

Init ==
    /\ \E server \in {None, "HostA"}, addresses \in AddressLists :
          /\ \A i \in 1..Len(addresses) : ~RaisesValueError(addresses[i])
          /\ info = NewServiceInfo(server, Text0, addresses)
    /\ futures = {}
    /\ cache = <<>>
    /\ lastCall = Call("__init__", "", FALSE, FALSE)
    /\ EngineInit

(***************************************************************************)
(* The addresses setter: clears both ledgers, then appends address by      *)
(* address; a malformed address raises TypeError and leaves what was       *)
(* appended before it.                                                     *)
(***************************************************************************)
\* a loop that skips a malformed address and goes on
RECURSIVE AppendAddressesSkipping(_, _)
AppendAddressesSkipping(s, value) ==
    IF value = <<>> THEN [s |-> s, raised |-> FALSE]
    ELSE LET addr == ip_address(Head(value))
         IN  IF addr.version = 0 THEN AppendAddressesSkipping(s, Tail(value))
             ELSE IF addr.version = 4
             THEN AppendAddressesSkipping(
                      [s EXCEPT !.ipv4_addresses = Append(@, addr)], Tail(value))
             ELSE AppendAddressesSkipping(
                      [s EXCEPT !.ipv6_addresses = Append(@, addr)], Tail(value))

RECURSIVE AppendAddresses(_, _)
AppendAddresses(s, value) ==
    IF value = <<>> THEN [s |-> s, raised |-> FALSE]
    ELSE LET addr == ip_address(Head(value))
         IN  IF addr.version = 0 THEN [s |-> s, raised |-> TRUE]
             ELSE IF addr.version = 4
             THEN AppendAddresses(
                      [s EXCEPT !.ipv4_addresses = Append(@, addr)], Tail(value))
             ELSE AppendAddresses(
                      [s EXCEPT !.ipv6_addresses = Append(@, addr)], Tail(value))

set_addresses(s, value) ==
    AppendAddresses([s EXCEPT !.ipv4_addresses = <<>>, !.ipv6_addresses = <<>>], value)

SetAddresses ==
    \E value \in AddressLists :
        LET r == set_addresses(info, value)
        IN  /\ info' = r.s
            /\ lastCall' = Call("addresses", IF r.raised THEN "TypeError" ELSE "", FALSE, FALSE)
            /\ UNCHANGED <<futures, cache, engineVars, drv, threads>>

GetProperties ==
    /\ ~info.properties.computed
    /\ info' = get_properties(info)
    /\ lastCall' = Call("properties", "", FALSE, FALSE)
    /\ UNCHANGED <<futures, cache, engineVars, drv, threads>>

(***************************************************************************)
(* async_update_records: applies the batch in order, then resolves every   *)
(* pending future when a record was new.                                   *)
(***************************************************************************)
\* async_update_records that resolves the futures whatever the records did
async_update_records_resolving(s, new_records_futures, zc, now, records) ==
    LET r == ProcessAll(s, zc, records, now, FALSE)
    IN  [s |-> r.s, futures |-> {}, ret |-> r.ret, notified |-> new_records_futures # {},
         case |-> Classify(s, records[1], now)]

\* async_update_records that walks the batch from its last record to its first
async_update_records_reversed(s, new_records_futures, zc, now, records) ==
    LET r == ProcessAll(s, zc, Reverse(records), now, FALSE)
        notify == r.ret /\ new_records_futures # {}
    IN  [s |-> r.s, futures |-> IF notify THEN {} ELSE new_records_futures,
         ret |-> r.ret, notified |-> notify,
         case |-> Classify(s, records[Len(records)], now)]

\* [s |-> the state after, futures |-> the registry after, ret |-> the last
\*  record's return value, notified |-> the futures were resolved]
async_update_records(s, new_records_futures, zc, now, records) ==
    LET n == Len(records)
        before == ProcessAll(s, zc, SubSeq(records, 1, n - 1), now, FALSE)
        r == process_record_threadsafe(before.s, zc, records[n], now)
        updated == before.ret \/ r.ret
        notify == updated /\ new_records_futures # {}
    IN  [s |-> r.s, futures |-> IF notify THEN {} ELSE new_records_futures,
         ret |-> r.ret, notified |-> notify,
         case |-> Classify(before.s, records[n], now)]

\* a resolved future wakes the driver that awaits it
Woken(resolvedFutures) ==
    [d \in Drivers |->
        IF d \in resolvedFutures /\ drv[d].pc = "waiting"
        THEN [drv[d] EXCEPT !.pc = "woken"] ELSE drv[d]]

UpdateRecordsAt(nows, batches) ==
    \E now \in nows, records \in batches :
        LET r == async_update_records(info, futures, cache, now, records)
        IN  /\ info' = r.s
            /\ futures' = r.futures
            /\ drv' = IF r.notified THEN Woken(futures) ELSE drv
            /\ lastCall' = Call("async_update_records", r.case, r.ret, r.notified)
            /\ UNCHANGED <<cache, engineVars, threads>>

AsyncUpdateRecords == UpdateRecordsAt(Nows, Batches)

\* whether a record that load_from_cache applied returned True
load_from_cache_updated(s, zc, now) ==
    LET srv == get_by_details(zc, s.name, "SRV")
        r1 == ProcessAll(s, zc, srv, now, FALSE)
        txt == get_by_details(zc, r1.s.name, "TXT")
        r2 == ProcessAll(r1.s, zc, txt, now, r1.ret)
    IN  IF s.server_key = r2.s.server_key
        THEN ProcessAll(r2.s, zc,
                 get_address_records_from_cache_by_type(r2.s, zc, "A")
                     \o get_address_records_from_cache_by_type(r2.s, zc, "AAAA"),
                 now, r2.ret).ret
        ELSE r2.ret

LoadFromCache ==
    \E now \in Nows :
        LET r == load_from_cache(info, cache, now)
            case == IF load_from_cache_updated(info, cache, now) THEN "updated" ELSE ""
        IN  /\ info' = r.s
            /\ lastCall' = Call("load_from_cache", case, r.ret, FALSE)
            /\ UNCHANGED <<futures, cache, engineVars, drv, threads>>

(***************************************************************************)
(* async_wait called by a task: the future is pending in the registry      *)
(* until it is resolved or its timeout fires; the waiter then discards it. *)
(***************************************************************************)
AsyncWait ==
    /\ CallerFuture \notin futures
    /\ futures' = futures \cup {CallerFuture}
    /\ lastCall' = NoCall
    /\ UNCHANGED <<info, cache, engineVars, drv, threads>>

AsyncWaitTimeout ==
    /\ CallerFuture \in futures
    /\ futures' = futures \ {CallerFuture}
    /\ lastCall' = NoCall
    /\ UNCHANGED <<info, cache, engineVars, drv, threads>>

(***************************************************************************)
(* The cache changes under the ServiceInfo: the engine adds a record.      *)
(***************************************************************************)
CacheAdd ==
    \E feed \in CacheFeeds :
        /\ Len(cache) < Len(feed)
        /\ cache = SubSeq(feed, 1, Len(cache))
        /\ cache' = SubSeq(feed, 1, Len(cache) + 1)
        /\ lastCall' = NoCall
        /\ UNCHANGED <<info, futures, engineVars, drv, threads>>

Next ==
    \/ SetAddresses
    \/ GetProperties
    \/ AsyncUpdateRecords
    \/ LoadFromCache
    \/ AsyncWait
    \/ AsyncWaitTimeout
    \/ CacheAdd

Spec == Init /\ [][Next]_vars

(***************************************************************************)
(* The TXT side alone: a ServiceInfo constructed from bytes or from a dict, *)
(* TXT records applied to it, and its properties read.                     *)
(***************************************************************************)
TextRecords ==
    {DNSText("printer", x, 2) :
        x \in Texts \cup {<<1, 97>>, <<2, 97, 61>>, <<3, 97, 61, 49, 3, 97, 61, 50>>}}

TextInit ==
    /\ \E server \in {None, "HostA"} :
          \/ \E text \in Texts : info = NewServiceInfo(server, text, <<>>)
          \/ \E properties \in PropertyDicts \cup StrPropertyDicts :
                 info = NewServiceInfoFromDict(server, properties, <<>>)
    /\ futures = {}
    /\ cache = <<>>
    /\ lastCall = Call("__init__", "", FALSE, FALSE)
    /\ EngineInit

ApplyText == UpdateRecordsAt({StartTime}, {<<record>> : record \in TextRecords})

\* reading the properties, computed already or not
ReadProperties ==
    /\ info' = get_properties(info)
    /\ lastCall' = Call("properties", "", FALSE, FALSE)
    /\ UNCHANGED <<futures, cache, engineVars, drv, threads>>

TextNext ==
    \/ ApplyText
    \/ ReadProperties

TextSpec == TextInit /\ [][TextNext]_vars

(***************************************************************************)
(* Names and announced records: the name setter, set_server_if_missing and *)
(* get_address_and_nsec_records, next to what changes name, server and     *)
(* ledgers.                                                                *)
(***************************************************************************)
Names == {"Printer", "PRINTER", "scanner"}

\* a name setter that leaves the key as it was
set_name_keeping_key(s, name) == [s EXCEPT !.name = name]

\* the name setter
set_name(s, name) == [s EXCEPT !.name = name, !.key = Lower(name)]

set_server_if_missing(s) ==
    IF s.server = None THEN [s EXCEPT !.server = s.name, !.server_key = s.key]
    ELSE s

\* override_ttl values the records are asked with
Ttls == {1, 2}

\* _ADDRESS_RECORD_TYPES
AddressRecordTypes == {"A", "AAAA"}

\* dns_addresses(override_ttl, IPVersion.All, created): a list
dns_addresses(s, override_ttl) ==
    LET ip_addresses == s.ipv4_addresses \o s.ipv6_addresses
        name == IF s.server = None THEN s.name ELSE s.server
    IN  [i \in 1..Len(ip_addresses) |->
            DNSAddress(name, ip_addresses[i].packed, override_ttl)]

dns_nsec(s, missing_types, override_ttl) ==
    [cls |-> "DNSNsec", name |-> s.name, type |-> "NSEC", next_name |-> s.name,
     rdtypes |-> missing_types, created |-> 0, ttl |-> override_ttl]

\* get_address_and_nsec_records that discards no type from missing_types
get_address_and_nsec_records_discarding_none(s, override_ttl) ==
    LET records == Range(dns_addresses(s, override_ttl))
    IN  IF s.server = None THEN [records |-> {}, raised |-> TRUE]
        ELSE [records |-> records \cup {dns_nsec(s, AddressRecordTypes, override_ttl)},
              raised |-> FALSE]

\* get_address_and_nsec_records: the set returned, or the AssertionError
get_address_and_nsec_records(s, override_ttl) ==
    LET records == Range(dns_addresses(s, override_ttl))
        missing_types == AddressRecordTypes \ {record.type : record \in records}
    IN  IF missing_types = {} THEN [records |-> records, raised |-> FALSE]
        ELSE IF s.server = None THEN [records |-> {}, raised |-> TRUE]
        ELSE [records |-> records \cup {dns_nsec(s, missing_types, override_ttl)},
              raised |-> FALSE]

SetName ==
    \E name \in Names :
        /\ info' = set_name(info, name)
        /\ lastCall' = Call("name", "", FALSE, FALSE)
        /\ UNCHANGED <<futures, cache, engineVars, drv, threads>>

SetServerIfMissing ==
    /\ info' = set_server_if_missing(info)
    /\ lastCall' = Call("set_server_if_missing", "", FALSE, FALSE)
    /\ UNCHANGED <<futures, cache, engineVars, drv, threads>>

GetAddressAndNsecRecords ==
    \E override_ttl \in Ttls :
        LET r == get_address_and_nsec_records(info, override_ttl)
        IN  /\ lastCall' = Call("get_address_and_nsec_records",
                                IF r.raised THEN "AssertionError" ELSE "", FALSE, FALSE)
            /\ UNCHANGED <<info, futures, cache, engineVars, drv, threads>>

\* the records applied here: SRV records, and one address of each family
NamingRecords ==
    {record \in UpdateRecords : record.cls = "DNSService"}
        \cup {DNSAddress("HostA", <<4, 1>>, 2), DNSAddress("hostb", <<16, 1>>, 2),
              DNSService("scanner", "hostb", 81, 1, 2, 2)}

ApplyNamingRecord == UpdateRecordsAt({StartTime}, {<<record>> : record \in NamingRecords})

NamingNext ==
    \/ SetName
    \/ SetServerIfMissing
    \/ GetAddressAndNsecRecords
    \/ ApplyNamingRecord
    \/ LoadFromCache
    \/ CacheAdd

NamingSpec == Init /\ [][NamingNext]_vars

(***************************************************************************)
(* The resolution driver, async_request.  A coroutine runs without         *)
(* interruption from one await to the next: each action below is one such  *)
(* stretch.                                                                *)
(***************************************************************************)
ListenerTime == 200
AvoidSyncDelayLow == 20
AvoidSyncDelayHigh == 120
MaxClock == 1900

\* a schedule without the random part
NoJitter == {0}

Jitter ==
    {AvoidSyncDelayLow, (AvoidSyncDelayLow + AvoidSyncDelayHigh) \div 2, AvoidSyncDelayHigh}
Timeouts == {0, 250, 700}
QuestionTypes == {None, "QU", "QM"}
ClockSteps == {100}

\* question_type or DNSQuestionType.QU if first_request else DNSQuestionType.QM
QueryType(question_type, first_request) ==
    IF first_request
    THEN (IF question_type # None THEN question_type ELSE "QU")
    ELSE "QM"

\* DNSOutgoing.add_question_or_one_cache / add_question_or_all_cache: the
\* question is asked unless the cache holds an entry for it
QuestionUnlessCached(zc, name, type) ==
    IF get_all_by_details(zc, Lower(name), type) = <<>> THEN {<<name, type>>} ELSE {}

generate_request_query(s, zc, now, question_type) ==
    LET name == s.name
        server_or_name == IF s.server # None THEN s.server ELSE name
        questions == QuestionUnlessCached(zc, name, "SRV")
                        \cup QuestionUnlessCached(zc, name, "TXT")
                        \cup QuestionUnlessCached(zc, server_or_name, "A")
                        \cup QuestionUnlessCached(zc, server_or_name, "AAAA")
    IN  [questions |-> questions, unicast |-> question_type = "QU"]

\* zc.async_add_listener / zc.async_remove_listener
AddListener(list) == Append(list, "ServiceInfo")
RemoveListener(list) ==
    IF "ServiceInfo" \in Range(list) THEN ListRemove(list, "ServiceInfo") ELSE list

\* the coroutine suspends in async_wait(min(next_, last) - now)
Suspend(d, loc, s, list, calls, futs, sent) ==
    /\ drv' = [drv EXCEPT ![d] = [loc EXCEPT !.pc = "waiting",
                                             !.wake = Min(loc.next_, loc.last)]]
    /\ futures' = futs \cup {d}
    /\ info' = s
    /\ listeners' = list
    /\ listenerCalls' = calls
    /\ queries' = sent

\* the try block left without the finally clause
FinishKeepingListener(d, loc, s, list, calls, futs) ==
    /\ drv' = [drv EXCEPT ![d] = loc]
    /\ futures' = futs
    /\ info' = s
    /\ listeners' = list
    /\ listenerCalls' = calls
    /\ queries' = queries

\* a finally clause that ends the subscription for every driver at once
FinishUnsubscribing(d, loc, s, list, calls, futs) ==
    /\ drv' = [drv EXCEPT ![d] = loc]
    /\ futures' = futs
    /\ info' = s
    /\ listeners' = <<>>
    /\ listenerCalls' = [calls EXCEPT !.removed = @ + 1]
    /\ queries' = queries

\* the coroutine leaves the try block: finally, async_remove_listener
Finish(d, loc, s, list, calls, futs) ==
    /\ drv' = [drv EXCEPT ![d] = loc]
    /\ futures' = futs
    /\ info' = s
    /\ listeners' = RemoveListener(list)
    /\ listenerCalls' = [calls EXCEPT !.removed = @ + 1]
    /\ queries' = queries

Return(loc, exit, result) == [loc EXCEPT !.pc = "done", !.exit = exit, !.result = result]
Raise(loc, exit) == [loc EXCEPT !.pc = "raised", !.exit = exit]

\* a loop without a deadline
DeadlineIgnored(last, now) == FALSE

\* a deadline test that lets the loop run once more at the deadline itself
DeadlinePassedAfter(last, now) == last < now

\* if last <= now: return False
DeadlinePassed(last, now) == last <= now

\* the while loop from its test to the next await or return; faults tells
\* whether zc.async_send may raise
RunLoop(d, loc, s, list, calls, futs, faults) ==
    IF is_complete(s)
    THEN Finish(d, Return(loc, "complete", TRUE), s, list, calls, futs)
    ELSE IF DeadlinePassed(loc.last, loc.now)
    THEN Finish(d, Return(loc, "deadline", FALSE), s, list, calls, futs)
    ELSE IF loc.next_ <= loc.now
    THEN \E out \in {generate_request_query(s, cache, loc.now,
                        QueryType(loc.question_type, loc.first_request))},
            loc1 \in {[loc EXCEPT !.first_request = FALSE]} :
             IF out.questions = {}
             THEN \E r \in {load_from_cache(s, cache, loc.now)} :
                      Finish(d, Return(loc1, "no_questions", r.ret), r.s, list, calls, futs)
             ELSE \/ \E j \in Jitter :
                        Suspend(d, [loc1 EXCEPT !.next_ = loc.now + loc.delay + j,
                                                !.delay = loc.delay * 2],
                                s, list, calls, futs,
                                Append(queries, [by |-> d, at |-> loc.now,
                                                 unicast |-> out.unicast]))
                  \/ /\ faults
                     /\ Finish(d, Raise(loc1, "send"), s, list, calls, futs)
    ELSE Suspend(d, loc, s, list, calls, futs, queries)

\* what the coroutine found when its body began: the time, and whether the
\* ServiceInfo was complete before the cache was loaded
Entry(s, now) == [at |-> now, complete |-> is_complete(s)]

\* async_request from `now = current_time_millis()` on
Enter(d, loc, faults) ==
    \E now \in {clock} :
      \E r \in {load_from_cache(info, cache, now)} :
        /\ IF r.ret
           THEN /\ drv' = [drv EXCEPT ![d] =
                              Return([loc EXCEPT !.now = now, !.entry = Entry(info, now)],
                                     "cached", TRUE)]
                /\ info' = r.s
                /\ UNCHANGED <<futures, listeners, listenerCalls, queries>>
           ELSE \E loc0 \in {[loc EXCEPT !.now = now, !.entry = Entry(info, now),
                                          !.first_request = TRUE,
                                          !.delay = ListenerTime, !.next_ = now,
                                          !.last = now + loc.timeout]},
                   s \in {r.s}, list \in {AddListener(listeners)} :
                    RunLoop(d, loc0, s, list,
                            [listenerCalls EXCEPT !.added = @ + 1], futures, faults)
        /\ lastCall' = NoCall
        /\ UNCHANGED <<cache, clock, started, threads>>

\* async_request called from `context` (as a task of the engine's loop, or
\* handed to that loop by a thread) with a timeout out of `timeouts`
AsyncRequestWith(d, context, timeouts, question_types, faults) ==
    /\ drv[d].pc = "idle"
    /\ \E timeout \in timeouts, question_type \in question_types :
          \E loc \in {[drv[d] EXCEPT !.timeout = timeout,
                                    !.question_type = question_type,
                                    !.context = context]} :
              IF started THEN Enter(d, loc, faults)
              ELSE /\ drv' = [drv EXCEPT ![d] = [loc EXCEPT !.pc = "await_start"]]
                   /\ lastCall' = NoCall
                   /\ UNCHANGED <<info, futures, cache, engineVars, threads>>

AsyncRequestFrom(d, context, question_types, faults) ==
    AsyncRequestWith(d, context, Timeouts, question_types, faults)

AsyncRequest(d, question_types, faults) ==
    AsyncRequestFrom(d, "task", question_types, faults)

\* where request is called: in the engine's running loop, or in a thread
Contexts == {"loop", "thread"}

\* get_running_loop(): the loop running in the calling context, if any
get_running_loop(context) == IF context = "loop" THEN "zc.loop" ELSE None

\* a wrapper that hands the coroutine over without looking at the context
request_unguarded(d, context, faults) ==
    AsyncRequestFrom(d, context, {None}, faults)

\* request; zc.loop is running in every state of the model
request(d, context, faults) ==
    IF "zc.loop" = get_running_loop(context)
    THEN /\ drv[d].pc = "idle"
         /\ drv' = [drv EXCEPT ![d] = Raise([drv[d] EXCEPT !.context = context],
                                            "RuntimeError")]
         /\ lastCall' = NoCall
         /\ UNCHANGED <<info, futures, cache, clock, started, listeners,
                        listenerCalls, queries, threads>>
    ELSE AsyncRequestFrom(d, context, {None}, faults)

Request(d, faults) == \E context \in Contexts : request(d, context, faults)

EngineStart ==
    /\ ~started
    /\ started' = TRUE
    /\ lastCall' = NoCall
    /\ UNCHANGED <<info, futures, cache, clock, listeners, listenerCalls, queries, drv, threads>>

\* zc.async_wait_for_start() returned
ResumeStarted(d, faults) ==
    /\ drv[d].pc = "await_start"
    /\ started
    /\ \E loc \in {drv[d]} : Enter(d, loc, faults)

\* the timer of wait_for_future_set_or_timeout sets the future
TimerFires(d) ==
    /\ drv[d].pc = "waiting"
    /\ drv[d].wake <= clock
    /\ drv' = [drv EXCEPT ![d].pc = "woken"]
    /\ lastCall' = NoCall
    /\ UNCHANGED <<info, futures, cache, engineVars, threads>>

\* async_wait returns and leaves its future in the registry
ResumeKeepingFuture(d, faults) ==
    /\ drv[d].pc = "woken"
    /\ \E loc \in {[drv[d] EXCEPT !.now = clock]} :
          RunLoop(d, loc, info, listeners, listenerCalls, futures, faults)
    /\ lastCall' = NoCall
    /\ UNCHANGED <<cache, clock, started, threads>>

\* async_wait returns: the future is discarded, now = current_time_millis()
Resume(d, faults) ==
    /\ drv[d].pc = "woken"
    /\ \E loc \in {[drv[d] EXCEPT !.now = clock]} :
          RunLoop(d, loc, info, listeners, listenerCalls, futures \ {d}, faults)
    /\ lastCall' = NoCall
    /\ UNCHANGED <<cache, clock, started, threads>>

\* the await of async_wait raises (the task is cancelled)
WaitFault(d) ==
    /\ drv[d].pc \in {"waiting", "woken"}
    /\ Finish(d, Raise(drv[d], "wait"), info, listeners, listenerCalls, futures \ {d})
    /\ lastCall' = NoCall
    /\ UNCHANGED <<cache, clock, started, threads>>

\* time passes, up to the next timer that is due or by one step
AdvanceClock ==
    LET timers == {drv[d].wake : d \in {e \in Drivers : drv[e].pc = "waiting"
                                                          /\ drv[e].wake > clock}}
        limit == IF timers = {} THEN MaxClock
                 ELSE CHOOSE t \in timers : \A u \in timers : t <= u
    IN  /\ \E d \in Drivers : drv[d].pc \in {"waiting", "woken"}
        /\ \E t \in {limit} \cup {clock + step : step \in ClockSteps} :
              /\ t > clock /\ t <= limit /\ t <= MaxClock
              /\ clock' = t
        /\ lastCall' = NoCall
        /\ UNCHANGED <<info, futures, cache, started, listeners, listenerCalls, queries, drv, threads>>

\* what the engine delivers to its listeners while a driver runs
DriverRecords == BatchRecords

EngineDelivers ==
    /\ "ServiceInfo" \in Range(listeners)
    /\ UpdateRecordsAt({clock}, SeqsUpTo(DriverRecords, MaxBatch) \ {<<>>})

\* a cache that holds an address, an SRV and a TXT record of the service
FullCache ==
    <<DNSAddress("HostA", <<4, 2>>, 2), DNSService("printer", "HostA", 80, 0, 0, 2),
      DNSText("printer", Text1, 2)>>

\* the same with an address record whose payload is no address
MalformedCache ==
    <<DNSAddress("HostA", <<5, 1>>, 2), DNSService("printer", "HostA", 80, 0, 0, 2),
      DNSText("printer", Text1, 2)>>

\* a cache that answers every question although it holds no usable address
QuietCache ==
    <<DNSService("printer", "hostb", 81, 1, 2, 2), DNSText("printer", Text1, 2),
      DNSAddress("hostb", <<4, 1>>, 1), DNSAddress("hostb", <<16, 1>>, 1)>>

DriverCaches == {<<>>, QuietCache, FullCache, MalformedCache, SubSeq(FullCache, 1, 2)}

DriverInit ==
    /\ \E server \in {None, "HostA"}, addresses \in {<<>>, <<(<<4, 1>>)>>} :
          info = NewServiceInfo(server, Text0, addresses)
    /\ futures = {}
    /\ cache \in DriverCaches
    /\ lastCall = Call("__init__", "", FALSE, FALSE)
    /\ EngineInit

DriverNext ==
    \/ EngineStart
    \/ AdvanceClock
    \/ EngineDelivers
    \/ \E d \in {"d1"} :
          \/ AsyncRequest(d, {None}, TRUE)
          \/ ResumeStarted(d, TRUE)
          \/ TimerFires(d)
          \/ Resume(d, TRUE)
          \/ WaitFault(d)

DriverSpec == DriverInit /\ [][DriverNext]_vars

(***************************************************************************)
(* The synchronous wrapper: request is called from the engine's loop or    *)
(* from a thread, over the caches of the driver; no record is delivered.   *)
(***************************************************************************)
SyncNext ==
    \/ EngineStart
    \/ AdvanceClock
    \/ \E d \in {"d1"} :
          \/ Request(d, TRUE)
          \/ ResumeStarted(d, TRUE)
          \/ TimerFires(d)
          \/ Resume(d, TRUE)
          \/ WaitFault(d)

SyncSpec == DriverInit /\ [][SyncNext]_vars

(***************************************************************************)
(* The backoff schedule: one attempt long enough for three queries, over   *)
(* an empty cache, while the engine delivers TXT and SRV records, which    *)
(* notify the waiting driver and never complete the ServiceInfo.           *)
(***************************************************************************)
LongTimeouts == {MaxClock - StartTime}

BackoffRecords == {record \in BatchRecords : record.cls # "DNSAddress"}

BackoffInit ==
    /\ \E server \in {None, "HostA"} : info = NewServiceInfo(server, Text0, <<>>)
    /\ futures = {}
    /\ cache = <<>>
    /\ lastCall = Call("__init__", "", FALSE, FALSE)
    /\ EngineInit

BackoffDelivers ==
    /\ "ServiceInfo" \in Range(listeners)
    /\ UpdateRecordsAt({clock}, {<<record>> : record \in BackoffRecords})

BackoffNext ==
    \/ EngineStart
    \/ AdvanceClock
    \/ BackoffDelivers
    \/ \E d \in {"d1"} :
          \/ AsyncRequestWith(d, "task", LongTimeouts, {None}, FALSE)
          \/ ResumeStarted(d, FALSE)
          \/ TimerFires(d)
          \/ Resume(d, FALSE)

BackoffSpec == BackoffInit /\ [][BackoffNext]_vars

(***************************************************************************)
(* Batches of several records delivered to a running driver.  The call is  *)
(* remembered with the batch, the state it was applied to, and the drivers *)
(* it woke with a complete ServiceInfo and that have not run since.        *)
(***************************************************************************)
MaxDelivery == 2

DeliveryRecords ==
    {DNSAddress("HostA", <<4, 1>>, 2),
     DNSService("printer", "HostA", 80, 0, 0, 2),
     DNSService("Printer", "hostb", 81, 1, 2, 2)}

DeliveryTimeouts == {250}

Deliveries == SeqsUpTo(DeliveryRecords, MaxDelivery) \ {<<>>}

WokenComplete == IF "completed" \in DOMAIN lastCall THEN lastCall.completed ELSE {}

DeliverBatch ==
    /\ "ServiceInfo" \in Range(listeners)
    /\ \E records \in Deliveries :
          \E r \in {async_update_records(info, futures, cache, clock, records)} :
              /\ info' = r.s
              /\ futures' = r.futures
              /\ drv' = IF r.notified THEN Woken(futures) ELSE drv
              /\ lastCall' =
                    [op |-> "async_update_records", case |-> r.case, ret |-> r.ret,
                     notified |-> r.notified, records |-> records, before |-> info,
                     completed |->
                         {d \in Drivers : drv[d].pc = "woken" /\ d \in WokenComplete}
                             \cup {d \in Drivers : /\ r.notified /\ is_complete(r.s)
                                                    /\ d \in futures
                                                    /\ drv[d].pc = "waiting"}]
              /\ UNCHANGED <<cache, engineVars, threads>>

DeliveryNext ==
    \/ EngineStart
    \/ AdvanceClock
    \/ DeliverBatch
    \/ \E d \in {"d1"} :
          \/ AsyncRequestWith(d, "task", DeliveryTimeouts, {None}, FALSE)
          \/ ResumeStarted(d, FALSE)
          \/ TimerFires(d)
          \/ Resume(d, FALSE)

DeliverySpec == BackoffInit /\ [][DeliveryNext]_vars

(***************************************************************************)
(* Two drivers on the same ServiceInfo in the same engine: each registers  *)
(* the ServiceInfo as a listener and waits on a future of its own.         *)
(***************************************************************************)
PairTimeouts == {250}

PairRecords == {DNSAddress("HostA", <<4, 1>>, 2), DNSText("printer", Text1, 2)}

PairInit ==
    /\ info = NewServiceInfo("HostA", Text0, <<>>)
    /\ futures = {}
    /\ cache = <<>>
    /\ lastCall = Call("__init__", "", FALSE, FALSE)
    /\ EngineInit

PairDelivers ==
    /\ "ServiceInfo" \in Range(listeners)
    /\ UpdateRecordsAt({clock}, {<<record>> : record \in PairRecords})

\* time passes from one timer to the next
AdvanceToTimer ==
    /\ AdvanceClock
    /\ \E d \in Drivers : drv[d].pc = "waiting" /\ clock' = drv[d].wake

PairNext ==
    \/ EngineStart
    \/ AdvanceToTimer
    \/ PairDelivers
    \/ \E d \in Drivers :
          \/ AsyncRequestWith(d, "task", PairTimeouts, {None}, TRUE)
          \/ ResumeStarted(d, TRUE)
          \/ TimerFires(d)
          \/ Resume(d, TRUE)
          \/ WaitFault(d)

PairSpec == PairInit /\ [][PairNext]_vars

(***************************************************************************)
(* The driver left alone: an empty cache, no record delivered, no fault;   *)
(* time advances and every wait expires at its timeout.                    *)
(***************************************************************************)
QuietInit ==
    /\ \E server \in {None, "HostA"}, addresses \in AddressLists :
          /\ \A i \in 1..Len(addresses) : ~RaisesValueError(addresses[i])
          /\ info = NewServiceInfo(server, Text0, addresses)
    /\ futures = {}
    /\ cache = <<>>
    /\ lastCall = Call("__init__", "", FALSE, FALSE)
    /\ EngineInit

QuietNext ==
    \/ EngineStart
    \/ AdvanceClock
    \/ \E d \in {"d1"} :
          \/ AsyncRequest(d, QuestionTypes, FALSE)
          \/ ResumeStarted(d, FALSE)
          \/ TimerFires(d)
          \/ Resume(d, FALSE)

QuietSpec ==
    /\ QuietInit
    /\ [][QuietNext]_vars
    /\ WF_vars(EngineStart)
    /\ WF_vars(AdvanceClock)
    /\ \A d \in {"d1"} :
          /\ WF_vars(AsyncRequest(d, QuestionTypes, FALSE))
          /\ WF_vars(ResumeStarted(d, FALSE))
          /\ WF_vars(TimerFires(d))
          /\ WF_vars(Resume(d, FALSE))

(***************************************************************************)
(* Properties of the address ledgers.                                      *)
(***************************************************************************)
NoRepeat(q) == \A i, j \in 1..Len(q) : i # j => q[i] # q[j]

LedgersDuplicateFree(s) ==
    /\ NoRepeat(s.ipv4_addresses)
    /\ NoRepeat(s.ipv6_addresses)
    /\ Range(s.ipv4_addresses) \cap Range(s.ipv6_addresses) = {}

\* the addresses of a list up to its first malformed one
RECURSIVE Accepted(_)
Accepted(value) ==
    IF value = <<>> \/ RaisesValueError(Head(value)) THEN <<>>
    ELSE <<Head(value)>> \o Accepted(Tail(value))

\* C1 as stated: in every reachable state no address is twice in the IPv4
\* ledger, none twice in the IPv6 ledger, and none in both ledgers.
C1_NoDuplicatesEver == LedgersDuplicateFree(info)

\* C1 amended: applying records (async_update_records) and load_from_cache
\* never introduce a repeated address into duplicate-free ledgers, and the
\* addresses setter leaves the ledgers duplicate-free exactly when the
\* addresses it accepted from the given list are.
C1_NoDuplicatesIntroduced ==
    /\ \A value \in AddressLists :
           LedgersDuplicateFree(set_addresses(info, value).s) <=> NoRepeat(Accepted(value))
    /\ LedgersDuplicateFree(info) =>
           /\ \A now \in Nows, record \in AllRecords :
                  LedgersDuplicateFree(process_record_threadsafe(info, cache, record, now).s)
           /\ \A now \in Nows : LedgersDuplicateFree(load_from_cache(info, cache, now).s)

\* C1 witness: a promotion has been applied to a ledger of two addresses
C1_Witness ==
    /\ lastCall.op = "async_update_records"
    /\ lastCall.case = "address_present"
    /\ Len(info.ipv4_addresses) >= 2
    /\ LedgersDuplicateFree(info)

\* the ledger an address of this version belongs to
LedgerOf(s, ip_addr) == IF ip_addr.version = 4 THEN s.ipv4_addresses ELSE s.ipv6_addresses

AddressRecordsFor(s, now) ==
    {record \in AllRecords :
        /\ record.cls = "DNSAddress"
        /\ ~is_expired(record, now)
        /\ ~RaisesValueError(record.address)
        /\ RecordKey(record) = s.server_key}

\* C2 as stated: a non-expired, well-formed address record for the server key
\* whose address is in its ledger leaves the ledger's length unchanged, puts
\* the address at the head and returns false; one whose address is not in the
\* ledger grows it by exactly one, puts the address at the head and returns true.
C2_InsertOrPromote ==
    \A now \in Nows : \A record \in AddressRecordsFor(info, now) :
        LET ip_addr == ip_address(record.address)
            before == LedgerOf(info, ip_addr)
            r == process_record_threadsafe(info, cache, record, now)
            after == LedgerOf(r.s, ip_addr)
        IN  /\ after # <<>> /\ after[1] = ip_addr
            /\ ip_addr \in Range(before) => Len(after) = Len(before) /\ ~r.ret
            /\ ip_addr \notin Range(before) => Len(after) = Len(before) + 1 /\ r.ret


(***************************************************************************)
(* Properties of the reconciler.                                           *)
(***************************************************************************)
\* C3: a record of any kind that is expired at `now` changes no field of the
\* ServiceInfo, returns false and resolves no pending future, alone or in a
\* batch of expired records.
C3_ExpiredIgnored ==
    \A now \in Nows : \A record \in AllRecords :
        is_expired(record, now) =>
            /\ process_record_threadsafe(info, cache, record, now) = [s |-> info, ret |-> FALSE]
            /\ \A records \in {<<record>>, <<record, record>>} :
                   LET r == async_update_records(info, futures, cache, now, records)
                   IN  r.s = info /\ r.futures = futures /\ ~r.ret /\ ~r.notified

\* C3 witness: an expired record was applied to a complete ServiceInfo with a
\* waiter pending, and the waiter is still pending
C3_Witness ==
    /\ lastCall.op = "async_update_records"
    /\ lastCall.case = "expired"
    /\ ~lastCall.ret
    /\ futures # {}
    /\ is_complete(info)

TextRecordsFor(s, now) ==
    {record \in AllRecords :
        record.cls = "DNSText" /\ ~is_expired(record, now) /\ RecordKey(record) = s.key}

\* C4 as stated: a non-expired TXT record for the service key is a no-op that
\* returns false when its bytes equal the raw text; otherwise it replaces the
\* raw text, invalidates the decoded attributes and returns true.
C4_TextReturnsFalseWhenSame ==
    \A now \in Nows : \A record \in TextRecordsFor(info, now) :
        LET r == process_record_threadsafe(info, cache, record, now)
        IN  IF record.text = info.text
            THEN r.s = info /\ ~r.ret
            ELSE /\ r.s = [info EXCEPT !.text = record.text, !.properties = NoProperties]
                 /\ r.ret

\* C4 amended: such a record returns true in both cases; when its bytes equal
\* the raw text no field changes (the decoded attributes stay as they are),
\* otherwise the raw text is replaced by the record's bytes and the decoded
\* attributes are invalidated.
C4_TextReplaced ==
    \A now \in Nows : \A record \in TextRecordsFor(info, now) :
        LET r == process_record_threadsafe(info, cache, record, now)
        IN  /\ r.ret
            /\ IF record.text = info.text
               THEN r.s = info
               ELSE r.s = [info EXCEPT !.text = record.text, !.properties = NoProperties]

\* C4 witness: a TXT record equal to the raw text was applied while the
\* attributes were decoded: it returned true and they are still decoded
C4_Witness ==
    /\ lastCall.op = "async_update_records"
    /\ lastCall.case = "text_same"
    /\ lastCall.ret
    /\ info.text = Text1
    /\ info.properties = [computed |-> TRUE, dict |-> {<<(<<97>>), TRUE, <<49>>>>}]

ServiceRecordsFor(s, now) ==
    {record \in AllRecords :
        record.cls = "DNSService" /\ ~is_expired(record, now) /\ RecordKey(record) = s.key}

\* the cache's entries, by position, that are non-expired, well-formed address
\* records of this type for this host
CachedPositions(zc, key, type, now) ==
    {i \in 1..Len(zc) :
        /\ zc[i].cls = "DNSAddress" /\ zc[i].type = type /\ RecordKey(zc[i]) = key
        /\ ~is_expired(zc[i], now) /\ zc[i].address[1] \in {4, 16}}

\* ledger is exactly those entries' addresses, the most recently cached first
IsCacheLifo(ledger, zc, key, type, now) ==
    LET positions == CachedPositions(zc, key, type, now)
    IN  /\ Len(ledger) = Cardinality(positions)
        /\ \A k \in 1..Len(ledger) :
               \E i \in positions :
                   /\ ledger[k].packed = zc[i].address
                   /\ Cardinality({j \in positions : j > i}) = k - 1

\* C5: a non-expired SRV record for the service key returns true and its name,
\* server, port, weight and priority are adopted; when its target differs from
\* the server key both ledgers become exactly the non-expired, well-formed
\* addresses the cache holds for the new server key, most recently cached
\* first; when the server key is unchanged the ledgers are untouched.
C5_ServiceReloadsLedgers ==
    \A now \in Nows : \A record \in ServiceRecordsFor(info, now) :
        LET r == process_record_threadsafe(info, cache, record, now)
            new_key == Lower(record.server)
        IN  /\ r.ret
            /\ r.s.name = record.name /\ r.s.server = record.server
            /\ r.s.server_key = new_key
            /\ r.s.port = record.port /\ r.s.weight = record.weight
            /\ r.s.priority = record.priority
            /\ r.s.text = info.text /\ r.s.properties = info.properties
            /\ IF new_key # info.server_key
               THEN /\ IsCacheLifo(r.s.ipv4_addresses, cache, new_key, "A", now)
                    /\ IsCacheLifo(r.s.ipv6_addresses, cache, new_key, "AAAA", now)
               ELSE /\ r.s.ipv4_addresses = info.ipv4_addresses
                    /\ r.s.ipv6_addresses = info.ipv6_addresses

\* C5 witness: an SRV record moved the service to hostb and the IPv4 ledger
\* now holds the two addresses cached for hostb, the later cached one first
C5_Witness ==
    /\ lastCall.op = "async_update_records"
    /\ lastCall.case = "service_new_host"
    /\ info.server_key = "hostb"
    /\ info.ipv4_addresses = <<ip_address(<<4, 2>>), ip_address(<<4, 1>>)>>
    /\ Len(cache) = 5

\* C6: the raw text is never null and the ServiceInfo is complete exactly when
\* a ledger is non-empty; applying a non-expired, well-formed address record
\* for the server key, or loading from a cache that holds one for the server
\* key the load ends with, makes it complete in that very step, whether or
\* not an SRV or TXT record was ever applied.
C6_CompleteIffAddress ==
    /\ info.text # NoneText
    /\ is_complete(info) <=> (info.ipv4_addresses # <<>> \/ info.ipv6_addresses # <<>>)
    /\ lastCall.op = "__init__" /\ Len(info.ipv4_addresses) + Len(info.ipv6_addresses) = 0
           => ~is_complete(info)
    /\ \A now \in Nows :
           /\ \A record \in AddressRecordsFor(info, now) :
                  is_complete(process_record_threadsafe(info, cache, record, now).s)
           /\ LET r == load_from_cache(info, cache, now)
              IN  /\ r.ret = is_complete(r.s)
                  /\ (CachedPositions(cache, r.s.server_key, "A", now)
                          \cup CachedPositions(cache, r.s.server_key, "AAAA", now)) # {}
                         => r.ret

\* C6 witness: the first address record made an incomplete ServiceInfo
\* complete although no SRV and no TXT record was ever applied
C6_Witness ==
    /\ lastCall.op = "async_update_records"
    /\ lastCall.case = "address_absent"
    /\ lastCall.ret
    /\ is_complete(info)
    /\ Len(info.ipv4_addresses) + Len(info.ipv6_addresses) = 1
    /\ info.port = NonePort
    /\ info.text = Text0

(***************************************************************************)
(* Properties of the resolution driver.                                    *)
(***************************************************************************)
\* the step in which the body of async_request begins for driver d
Begins(d) ==
    /\ drv[d].pc \in {"idle", "await_start"}
    /\ drv'[d].pc \notin {"idle", "await_start"}

\* the cache holds, non-expired at now, an SRV and a TXT record of service s
\* and an address record for the SRV record's target
CacheHoldsService(zc, s, now, payloads) ==
    \E i, j, k \in 1..Len(zc) :
        /\ zc[i].cls = "DNSService" /\ RecordKey(zc[i]) = s.key /\ ~is_expired(zc[i], now)
        /\ zc[j].cls = "DNSText" /\ RecordKey(zc[j]) = s.key /\ ~is_expired(zc[j], now)
        /\ zc[k].cls = "DNSAddress" /\ RecordKey(zc[k]) = Lower(zc[i].server)
        /\ ~is_expired(zc[k], now) /\ zc[k].address \in payloads

\* load_from_cache returns true, and the call that begins in this step has
\* returned true without a query, a registration or a wait
AnsweredFromCache(d) ==
    /\ load_from_cache(info, cache, clock).ret
    /\ drv'[d].pc = "done" /\ drv'[d].result /\ drv'[d].exit = "cached"
    /\ queries' = <<>> /\ futures' = futures
    /\ listeners' = listeners /\ listenerCalls' = listenerCalls

C8_ListenerRemovedOnExit ==
    \A d \in {"d1"} :
        drv[d].pc \in {"done", "raised"} =>
            /\ drv[d].exit \in {"cached", "complete", "no_questions", "deadline", "send", "wait"}
            /\ "ServiceInfo" \notin Range(listeners)
            /\ IF drv[d].exit = "cached"
               THEN listenerCalls = [added |-> 0, removed |-> 0]
               ELSE listenerCalls = [added |-> 1, removed |-> 1]

\* C8 witness: nothing was cached and nothing applied; after retries the
\* call returned false at its deadline
C8_Witness ==
    /\ cache = <<>>
    /\ drv["d1"].pc = "done" /\ drv["d1"].exit = "deadline" /\ ~drv["d1"].result
    /\ Len(queries) >= 2
    /\ info = NewServiceInfo(None, Text0, <<>>)
    /\ listeners = <<>> /\ listenerCalls = [added |-> 1, removed |-> 1]

\* C9 as stated: with an empty cache and no record delivered, async_request
\* eventually returns false.
C9_ReturnsFalse == <>(drv["d1"].pc = "done" /\ ~drv["d1"].result)

\* C9 amended: with an empty cache and no record delivered, async_request
\* eventually returns a value and never raises; the value is false, returned
\* at the deadline, unless the ServiceInfo already held an address when it
\* was called, in which case it is true, returned at once.
C9_Terminates ==
    <>[](/\ drv["d1"].pc = "done"
         /\ drv["d1"].result = drv["d1"].entry.complete
         /\ drv["d1"].exit = IF drv["d1"].entry.complete THEN "cached" ELSE "deadline")

\* C9 witness: three queries went unanswered and the call returned false
C9_Witness ==
    /\ drv["d1"].pc = "done" /\ drv["d1"].exit = "deadline" /\ ~drv["d1"].result
    /\ ~drv["d1"].entry.complete
    /\ Len(queries) = 3
    /\ drv["d1"].now >= drv["d1"].last

\* C10: every query was sent at a time strictly before the deadline of the
\* call that sent it, the time its body began plus its timeout.
C10_NoSendAtDeadline ==
    \A i \in 1..Len(queries) :
        LET loc == drv[queries[i].by]
        IN  /\ loc.last = loc.entry.at + loc.timeout
            /\ queries[i].at < loc.last

\* C10 witness: after two queries the call resumed exactly at its deadline
\* and returned without a third
C10_Witness ==
    /\ drv["d1"].pc = "done" /\ drv["d1"].exit = "deadline"
    /\ drv["d1"].now = drv["d1"].last
    /\ Len(queries) = 2
    /\ \A i \in 1..Len(queries) : queries[i].at < drv["d1"].last

(***************************************************************************)
(* Properties of the queries a resolution attempt sends.                   *)
(***************************************************************************)
\* the queries driver d has sent, in order
QueriesBy(d) == SelectSeq(queries, LAMBDA q : q.by = d)

\* C11: within one attempt, with no question type given the first query asks
\* for a unicast reply and every retransmission for multicast; with a forced
\* mode (QU or QM) every query of the attempt, the first and all
\* retransmissions, uses that mode.
C11_ForcedModeThroughout ==
    \A d \in {"d1"} :
        LET sent == QueriesBy(d)
        IN  \A i \in 1..Len(sent) :
                sent[i].unicast =
                    IF drv[d].question_type = None THEN i = 1
                    ELSE drv[d].question_type = "QU"

(***************************************************************************)
(* _process_record_threadsafe applied to address records by two execution  *)
(* contexts at once.  Nothing in the code serialises them, so a context    *)
(* can be preempted between any two statements: each action below is one   *)
(* statement of lines 426-462.  `ipv4_addresses = self._ipv4_addresses`    *)
(* binds the list object; _set_ipv4_addresses_from_cache binds a new list  *)
(* to the attribute, after which a context that bound the old list holds a *)
(* list the ServiceInfo no longer has (stale, with its own contents).      *)
(***************************************************************************)
RaceRecords == {DNSAddress("HostA", a, 2) : a \in {<<4, 1>>, <<4, 2>>, <<16, 1>>}}

RaceAddressLists ==
    {<<>>, <<(<<4, 1>>)>>, <<(<<16, 2>>), <<16, 1>>>>, <<(<<4, 2>>), <<4, 1>>>>}

RaceCaches == {<<>>, <<DNSAddress("HostA", <<4, 1>>, 2), DNSAddress("HostA", <<4, 2>>, 2)>>}

SetLedger(s, ip_addr, q) ==
    IF ip_addr.version = 4 THEN [s EXCEPT !.ipv4_addresses = q]
    ELSE [s EXCEPT !.ipv6_addresses = q]

CurrentList(t) ==
    IF threads[t].ip_addr.version = 4 THEN info.ipv4_addresses ELSE info.ipv6_addresses

\* the list the context's local variable refers to
LocalList(t) == IF threads[t].stale THEN threads[t].list ELSE CurrentList(t)

\* the list the context's membership and head tests read: the IPv4 branch
\* reads its local variable, the IPv6 branch reads self._ipv6_addresses again
TestedList(t) == IF threads[t].ip_addr.version = 4 THEN LocalList(t) ELSE CurrentList(t)

HoldsList(th) == th.pc \in {"member", "insert", "head", "remove", "reinsert"}

\* context t is at pc and moves on; the other contexts stay
Goes(t, pc, th) ==
    /\ threads[t].pc = pc
    /\ threads' = [threads EXCEPT ![t] = th]

\* a list operation through the local variable
WriteLocal(t, pc, q, th) ==
    /\ threads[t].pc = pc
    /\ IF threads[t].stale
       THEN /\ threads' = [threads EXCEPT ![t] = [th EXCEPT !.list = q]]
            /\ info' = info
       ELSE /\ threads' = [threads EXCEPT ![t] = th]
            /\ info' = SetLedger(info, threads[t].ip_addr, q)

\* lines 426-435: expiry, key and type tests, parsing of the address
ThreadBegins(t) ==
    \E record \in RaceRecords :
        LET ip_addr == ip_address(record.address)
        IN  /\ IF is_expired(record, clock) \/ RecordKey(record) # info.server_key
                  \/ ip_addr.version = 0
               THEN Goes(t, "idle", [threads[t] EXCEPT !.pc = "returned", !.ret = FALSE])
               ELSE Goes(t, "idle", [threads[t] EXCEPT !.pc = "reload", !.ip_addr = ip_addr])
            /\ UNCHANGED <<info, futures, cache, lastCall, engineVars, drv>>

\* lines 438-439 and 451-452: the ledger is read from the cache
ThreadReloads(t) ==
    LET v4 == threads[t].ip_addr.version = 4
        reload == IF v4 THEN info.ipv4_addresses # <<>> ELSE info.ipv6_addresses = <<>>
        loaded == IF v4 THEN set_ipv4_addresses_from_cache(info, cache, clock)
                  ELSE set_ipv6_addresses_from_cache(info, cache, clock)
    IN  /\ threads[t].pc = "reload"
        /\ info' = IF reload THEN loaded ELSE info
        /\ threads' =
              [u \in Threads |->
                  IF u = t THEN [threads[t] EXCEPT !.pc = "bind"]
                  ELSE IF reload /\ HoldsList(threads[u]) /\ ~threads[u].stale
                          /\ threads[u].ip_addr.version = threads[t].ip_addr.version
                  THEN [threads[u] EXCEPT !.stale = TRUE, !.list = CurrentList(t)]
                  ELSE threads[u]]
        /\ UNCHANGED <<futures, cache, lastCall, engineVars, drv>>

\* lines 441 and 454: the local variable binds the attribute's list
ThreadBinds(t) ==
    /\ Goes(t, "bind", [threads[t] EXCEPT !.pc = "member", !.stale = FALSE, !.list = <<>>])
    /\ UNCHANGED <<info, futures, cache, lastCall, engineVars, drv>>

\* lines 442 and 455: if ip_addr not in ...
ThreadTestsMembership(t) ==
    /\ Goes(t, "member",
            [threads[t] EXCEPT !.pc = IF threads[t].ip_addr \notin Range(TestedList(t))
                                      THEN "insert" ELSE "head"])
    /\ UNCHANGED <<info, futures, cache, lastCall, engineVars, drv>>

\* lines 443-444 and 456-457: insert(0, ip_addr); return True
ThreadInserts(t) ==
    /\ WriteLocal(t, "insert", <<threads[t].ip_addr>> \o LocalList(t),
                  [threads[t] EXCEPT !.pc = "returned", !.ret = TRUE])
    /\ UNCHANGED <<futures, cache, lastCall, engineVars, drv>>

\* lines 445 and 458: elif ip_addr != ...[0]; an empty list raises IndexError
ThreadTestsHead(t) ==
    /\ Goes(t, "head",
            [threads[t] EXCEPT
                !.pc = IF TestedList(t) = <<>> THEN "failed"
                       ELSE IF threads[t].ip_addr # TestedList(t)[1] THEN "remove"
                       ELSE "returned",
                !.ret = FALSE])
    /\ UNCHANGED <<info, futures, cache, lastCall, engineVars, drv>>

\* lines 446 and 459: remove(ip_addr); an absent address raises ValueError
ThreadRemoves(t) ==
    /\ IF threads[t].ip_addr \in Range(LocalList(t))
       THEN WriteLocal(t, "remove", ListRemove(LocalList(t), threads[t].ip_addr),
                       [threads[t] EXCEPT !.pc = "reinsert"])
       ELSE /\ Goes(t, "remove", [threads[t] EXCEPT !.pc = "failed"])
            /\ info' = info
    /\ UNCHANGED <<futures, cache, lastCall, engineVars, drv>>

\* lines 447-449 and 460-462: insert(0, ip_addr); return False
ThreadReinserts(t) ==
    /\ WriteLocal(t, "reinsert", <<threads[t].ip_addr>> \o LocalList(t),
                  [threads[t] EXCEPT !.pc = "returned", !.ret = FALSE])
    /\ UNCHANGED <<futures, cache, lastCall, engineVars, drv>>

RaceInit ==
    /\ \E addresses \in RaceAddressLists : info = NewServiceInfo("HostA", Text0, addresses)
    /\ futures = {}
    /\ cache \in RaceCaches
    /\ lastCall = Call("__init__", "", FALSE, FALSE)
    /\ EngineInit

RaceNext ==
    \E t \in Threads :
        \/ ThreadBegins(t)
        \/ ThreadReloads(t)
        \/ ThreadBinds(t)
        \/ ThreadTestsMembership(t)
        \/ ThreadInserts(t)
        \/ ThreadTestsHead(t)
        \/ ThreadRemoves(t)
        \/ ThreadReinserts(t)

RaceSpec == RaceInit /\ [][RaceNext]_vars

\* C12: with two contexts applying address records to one ServiceInfo, their
\* statements interleaved in any order, no ledger ever holds an address
\* twice, no call fails, and an address a call has inserted is in its ledger.
C12_ConcurrentApplyIsSafe ==
    /\ LedgersDuplicateFree(info)
    /\ \A t \in Threads :
          /\ threads[t].pc # "failed"
          /\ threads[t].pc = "returned" /\ threads[t].ret
                => threads[t].ip_addr \in Range(CurrentList(t))

(***************************************************************************)
(* Properties of the waiter registry.                                      *)
(***************************************************************************)
\* a batch resolves every pending future when one of its records returned
\* True, and leaves the registry alone otherwise
BatchesNotify ==
    \A now \in Nows, records \in Batches :
        LET r == async_update_records(info, futures, cache, now, records)
            updated == ProcessAll(info, cache, records, now, FALSE).ret
        IN  /\ updated => r.futures = {} /\ r.notified = (futures # {})
            /\ ~updated => r.futures = futures /\ ~r.notified

\* this step is a load_from_cache in which a record returned True
LoadUpdated ==
    /\ lastCall'.op = "load_from_cache" /\ lastCall'.case = "updated"
    /\ \E now \in Nows :
          /\ info' = load_from_cache(info, cache, now).s
          /\ load_from_cache_updated(info, cache, now)

MalformedRecordsFor(s, now) ==
    {record \in AllRecords :
        /\ record.cls = "DNSAddress" /\ RecordKey(record) = s.server_key
        /\ ~is_expired(record, now) /\ RaisesValueError(record.address)}

WellFormed(value) == SelectSeq(value, LAMBDA a : ~RaisesValueError(a))

\* a malformed address record changes nothing and returns false, and the
\* other record of its batch is applied as if it were alone
MalformedRecordSkipped ==
    \A now \in Nows : \A bad \in MalformedRecordsFor(info, now) :
        /\ process_record_threadsafe(info, cache, bad, now) = [s |-> info, ret |-> FALSE]
        /\ \A good \in BatchRecords :
              LET alone == async_update_records(info, futures, cache, now, <<good>>)
                  after == async_update_records(info, futures, cache, now, <<bad, good>>)
                  before == async_update_records(info, futures, cache, now, <<good, bad>>)
              IN  /\ after = alone
                  /\ before.s = alone.s /\ before.futures = alone.futures
                  /\ ~before.ret

\* C14 as stated: a malformed address raises nothing, in a ledger update and
\* in the addresses list of the constructor or setter alike: it is skipped as
\* if it had not been presented and the rest is still processed.
C14_MalformedNeverRaises ==
    /\ MalformedRecordSkipped
    /\ \A value \in AddressLists :
          /\ ~set_addresses(info, value).raised
          /\ set_addresses(info, value).s = set_addresses(info, WellFormed(value)).s

\* C14 amended: a malformed address record in a ledger update is skipped as
\* stated.  A malformed address in the list given to the constructor or the
\* addresses setter raises TypeError: the ledgers then hold exactly the
\* addresses of the list before the first malformed one (what they held
\* before is gone) and the addresses after it are not processed.
C14_MalformedRaisesInSetter ==
    /\ MalformedRecordSkipped
    /\ \A value \in AddressLists :
          LET r == set_addresses(info, value)
          IN  /\ r.raised = (WellFormed(value) # value)
              /\ r.s = set_addresses(info, Accepted(value)).s
              /\ Len(r.s.ipv4_addresses) + Len(r.s.ipv6_addresses) = Len(Accepted(value))

\* C14 witness: the setter raised TypeError at the second address of its
\* list and left the first in the ledger
C14_Witness ==
    /\ lastCall = Call("addresses", "TypeError", FALSE, FALSE)
    /\ Len(info.ipv4_addresses) + Len(info.ipv6_addresses) = 1

(***************************************************************************)
(* Properties of the synchronous wrapper.                                  *)
(***************************************************************************)
\* driver d calls request in this step from the engine's own loop
RequestInLoop(d) == drv[d].pc = "idle" /\ drv'[d].context = "loop"

\* C15: request called from within the engine's running loop raises
\* RuntimeError in the same step, and that step sends no query, registers no
\* listener, loads nothing from the cache and changes no field of the
\* ServiceInfo.
C15_RequestInLoopRaises ==
    [][\A d \in {"d1"} :
          RequestInLoop(d) =>
              /\ drv'[d].pc = "raised" /\ drv'[d].exit = "RuntimeError"
              /\ UNCHANGED <<info, futures, cache, listeners, listenerCalls, queries>>]_vars

\* C15 witness: request was refused in the loop while the cache held a
\* complete service that load_from_cache would have applied
C15_Witness ==
    /\ drv["d1"].pc = "raised" /\ drv["d1"].exit = "RuntimeError"
    /\ drv["d1"].context = "loop"
    /\ started
    /\ load_from_cache(info, cache, clock).ret
    /\ load_from_cache(info, cache, clock).s # info
    /\ queries = <<>> /\ listeners = <<>>

(***************************************************************************)
(* Properties of the TXT codec and of the properties cache.                *)
(***************************************************************************)
\* the text _set_properties packs a dict into
PackedText(properties) ==
    JoinRecords([i \in 1..Len(properties) |-> PropertyRecord(properties[i])])

\* C16: unpacking the text packed from a dict gives the items of the dict,
\* values that are None and values that are empty included, and the
\* properties of a ServiceInfo just constructed are what unpacking its text
\* gives.
C16_RoundTrip ==
    /\ \A properties \in PropertyDicts :
          unpack_text_into_properties(PackedText(properties)) = Range(properties)
    /\ lastCall.op = "__init__" =>
          get_properties(info).properties.dict = unpack_text_into_properties(info.text)

\* the item a packed entry stands for: its key, and its value when it has a
\* non-empty one
Decoded(item) ==
    IF item[2] /\ item[3] # <<>> THEN item ELSE <<item[1], FALSE, <<>>>>

\* the items of the first entry of each key, in wire order
FirstOccurrences(entries) ==
    {Decoded(entries[i]) : i \in {k \in 1..Len(entries) :
                                     \A j \in 1..(k - 1) : entries[j][1] # entries[k][1]}}

\* what the properties getter returns once `text` has been set
PropertiesOfText(s, text) ==
    get_properties(set_text([s EXCEPT !.text = NoneText], text)).properties.dict

AbsentKinds(s) ==
    (IF s.ipv4_addresses = <<>> THEN {"A"} ELSE {})
        \cup (IF s.ipv6_addresses = <<>> THEN {"AAAA"} ELSE {})

C19_KeysAreLowercased ==
    /\ info.key = Lower(info.name)
    /\ info.server # None => info.server_key = Lower(info.server)

\* C19 witness: name and server were replaced by a SRV record, the name was
\* set again, and name and server still differ from their keys
C19_Witness ==
    /\ lastCall.op = "name"
    /\ info.name = "PRINTER" /\ info.key = "printer"
    /\ info.server = "HostA" /\ info.server_key = "hosta"
    /\ info.port = 80

\* C20 as stated: the properties are uncomputed or are what unpacking the
\* current text gives, so that reading them returns what unpacking the text
\* gives.
C20_PropertiesDerivedFromText ==
    get_properties(info).properties.dict = unpack_text_into_properties(info.text)

\* the properties are a dict that _set_properties packs into the current text
PacksIntoText(s) ==
    \E properties \in PropertyDicts \cup StrPropertyDicts :
        /\ s.properties.dict = Range(properties)
        /\ s.text = PackedText(properties)

\* C20 amended: the properties are uncomputed, or what unpacking the current
\* text gives, or the dict the constructor was given, which packs into the
\* current text but need not be what the text unpacks to; a TXT record that
\* changes the text leaves them uncomputed, and they are unpacked from the
\* new text when read.
C20_PropertiesDerivedOrGiven ==
    /\ info.properties.computed =>
          \/ info.properties.dict = unpack_text_into_properties(info.text)
          \/ PacksIntoText(info)
    /\ lastCall.op = "async_update_records" /\ lastCall.case = "text_new" =>
          /\ ~info.properties.computed
          /\ get_properties(info).properties.dict = unpack_text_into_properties(info.text)

\* C20 witness: the properties of a ServiceInfo constructed from the dict
\* {'a': '1'} were read and are that dict, while its text unpacks to
\* {b'a': b'1'}
C20_Witness ==
    /\ lastCall.op = "properties"
    /\ info.properties = [computed |-> TRUE, dict |-> {<<Str(<<97>>), TRUE, Str(<<49>>)>>}]
    /\ info.text = <<3, 97, 61, 49>>
    /\ unpack_text_into_properties(info.text) = {<<(<<97>>), TRUE, <<49>>>>}

(***************************************************************************)
(* Properties of the backoff schedule.                                     *)
(***************************************************************************)
RECURSIVE Pow2(_)
Pow2(k) == IF k = 0 THEN 1 ELSE 2 * Pow2(k - 1)

\* after its n-th query, sent at t, driver d has scheduled the next one at
\* t + ListenerTime * 2^(n-1) + j with j in [20, 120], and no two of its
\* queries are closer than the delay scheduled between them
Scheduled(d) ==
    LET q == QueriesBy(d)
        n == Len(q)
    IN  /\ \A k \in 2..n :
              q[k].at - q[k - 1].at >= ListenerTime * Pow2(k - 2) + AvoidSyncDelayLow
        /\ n >= 1 /\ drv[d].pc \in {"waiting", "woken"} =>
              /\ drv[d].next_ - (q[n].at + ListenerTime * Pow2(n - 1))
                    \in AvoidSyncDelayLow..AvoidSyncDelayHigh
              /\ drv[d].delay = ListenerTime * Pow2(n)

\* driver d sends a query in this step
Sends(d) == Len(QueriesBy(d)') > Len(QueriesBy(d))

\* C21: a query is sent only when the scheduled next-send time has arrived;
\* after the k-th query (k = 0, 1, ...), sent at t, the next is scheduled at
\* t + d0 * 2^k + j with j in [20, 120]; a wake-up by a notification that
\* does not complete the state sends nothing before that time, and the gap
\* between consecutive queries is at least d0 * 2^k + 20.
C21_BackoffSchedule ==
    /\ [](\A d \in {"d1"} : Scheduled(d))
    /\ [][\A d \in {"d1"} :
             Sends(d) /\ drv[d].pc = "woken" => drv[d].next_ <= clock]_vars

\* C21 witness: three queries were sent, the second at the earliest time the
\* schedule allows, while a TXT record delivered in between notified the
\* waiting driver without completing the ServiceInfo
C21_Witness ==
    /\ Len(QueriesBy("d1")) = 3
    /\ QueriesBy("d1")[2].at - QueriesBy("d1")[1].at = ListenerTime + AvoidSyncDelayLow
    /\ info.text = Text1
    /\ ~is_complete(info)
    /\ drv["d1"].pc = "waiting"

(***************************************************************************)
(* Properties of a batch and of the drivers it wakes.                      *)
(***************************************************************************)
\* the records applied one after the other, from the first to the last
RECURSIVE InDeliveryOrder(_, _, _, _)
InDeliveryOrder(s, zc, records, now) ==
    IF records = <<>> THEN s
    ELSE process_record_threadsafe(
             InDeliveryOrder(s, zc, SubSeq(records, 1, Len(records) - 1), now),
             zc, records[Len(records)], now).s

\* after a batch the ServiceInfo is what its records give in delivery order,
\* and a driver the batch woke is no longer in the registry
BatchAppliedBeforeWake ==
    "records" \in DOMAIN lastCall =>
        /\ info = InDeliveryOrder(lastCall.before, cache, lastCall.records, clock)
        /\ lastCall.notified => futures = {}
        /\ \A d \in {"d1"} : d \in lastCall.completed =>
              drv[d].pc = "woken" \/ ~lastCall.notified

\* driver d runs on from its await in this step
Resumes(d) == drv[d].pc = "woken" /\ drv'[d].pc # "woken"

ReturnsCompleteUnsent(d) ==
    /\ drv'[d].pc = "done" /\ drv'[d].exit = "complete" /\ drv'[d].result
    /\ queries' = queries

\* C22 as stated: the records of a batch are applied in delivery order and
\* all of them before a waiter is resolved, and a driver woken by a batch
\* that made the ServiceInfo complete returns true without another query.
C22_WokenByCompleteReturns ==
    /\ []BatchAppliedBeforeWake
    /\ [][\A d \in {"d1"} :
             Resumes(d) /\ d \in WokenComplete => ReturnsCompleteUnsent(d)]_vars

\* C22 amended: the records of a batch are applied in delivery order and all
\* of them before a waiter is resolved; a woken driver tests completeness
\* when it runs again, and returns true without another query exactly when
\* the ServiceInfo is complete then, which it need not be when another
\* batch was applied between the wake-up and the driver's turn.
C22_WokenTestsWhenItRuns ==
    /\ []BatchAppliedBeforeWake
    /\ [][\A d \in {"d1"} :
             Resumes(d) => (is_complete(info) <=> ReturnsCompleteUnsent(d))]_vars

\* C22 witness: a batch of an SRV record and an address record for its host
\* was applied in that order to a ServiceInfo without a server; it completed
\* it and woke the waiting driver
C22_Witness ==
    /\ "records" \in DOMAIN lastCall
    /\ lastCall.records = <<DNSService("printer", "HostA", 80, 0, 0, 2),
                            DNSAddress("HostA", <<4, 1>>, 2)>>
    /\ lastCall.before.server = None
    /\ lastCall.notified /\ lastCall.completed = {"d1"}
    /\ is_complete(info)
    /\ drv["d1"].pc = "woken"

(***************************************************************************)
(* Properties of the registry of futures.                                  *)
(***************************************************************************)
Waits(d) == drv[d].pc \in {"waiting", "woken"}
Exited(d) == drv[d].pc \in {"done", "raised"}

\* C23: a future is in the registry only while its driver waits: once the
\* wait has ended, by notification, by timeout or by a fault, it is gone,
\* and when every driver has exited the registry is empty.
C23_RegistryNeverLeaks ==
    /\ \A d \in Drivers : d \in futures => Waits(d)
    /\ (\A d \in Drivers : Exited(d)) => futures = {}

\* C23 witness: one driver returned false at its deadline, the other was then
\* woken by a notification and returned true; the registry is empty
C23_Witness ==
    /\ drv["d2"].pc = "done" /\ drv["d2"].exit = "deadline"
    /\ drv["d1"].pc = "done" /\ drv["d1"].exit = "complete"
    /\ drv["d1"].now > drv["d2"].now
    /\ drv["d1"].now < drv["d1"].wake
    /\ futures = {}

(***************************************************************************)
(* Properties of two drivers on one ServiceInfo.                           *)
(***************************************************************************)
\* the ServiceInfo is registered once for every driver in its loop
Subscribed ==
    Len(SelectSeq(listeners, LAMBDA l : l = "ServiceInfo"))
        = Cardinality({d \in Drivers : Waits(d)})

Returns(d) == drv[d].pc # "done" /\ drv'[d].pc = "done"

HasAddress(s) == s.ipv4_addresses # <<>> \/ s.ipv6_addresses # <<>>

\* C24: the value async_request returns is the completeness of the
\* ServiceInfo as it is when the call returns: true with an address in a
\* ledger, false with both ledgers empty, on every returning path.
C24_ReturnsCompleteness ==
    [][\A d \in {"d1"} :
          Returns(d) => /\ drv'[d].result = HasAddress(info')
                        /\ info'.text # NoneText]_vars

\* C24 witness: the ServiceInfo became complete while the driver waited, the
\* driver ran again at its deadline or later and returned true
C24_Witness ==
    /\ drv["d1"].pc = "done" /\ drv["d1"].exit = "complete" /\ drv["d1"].result
    /\ drv["d1"].now >= drv["d1"].last
    /\ ~drv["d1"].entry.complete
    /\ HasAddress(info)

=============================================================================
